---- MODULE Spec2Model ----
(***************************************************************************)
(* Raymondo: ingestion of PDF files into the 'documents' vector table and  *)
(* the 'uploaded_documents' registry (upload page and directory scripts),  *)
(* the document management page, and the chat page.                        *)
(***************************************************************************)
EXTENDS Integers, Sequences, FiniteSets, Bags, TLC

\* ------------------------------------------------------------------------
\* Bounds of the model
\* ------------------------------------------------------------------------
\* largest number of rows the chunk table holds
MaxChunks == 4
\* largest id the registry's serial column hands out
MaxRows == 2
\* largest number of files behind one click of "Start Upload and Processing"
MaxUploadFiles == 2
\* batch size of the deduplicating scan script (100 in the script), scaled so
\* that the corpus below spans several batches
BATCH_SIZE == 1
\* rows per insert request of the vector store (chunk_size=1000), scaled
StoreChunkSize == 2

\* ------------------------------------------------------------------------
\* Files, paths, documents
\* ------------------------------------------------------------------------
Names == {"a.pdf", "b.pdf"}

\* A PDF file: its name, the author in its metadata, and for every page the
\* number of chunks the splitter cuts from the page's text (0: no text).
Corpus ==
    { [name |-> "a.pdf", author |-> "Ann",     pages |-> <<2, 1>>],
      [name |-> "a.pdf", author |-> "Unknown", pages |-> <<0>>],
      [name |-> "b.pdf", author |-> "Unknown", pages |-> <<1>>] }

\* the authors a registry row can carry
Authors == {f.author : f \in Corpus}

\* A path is the sequence of its components.
DocumentsDir == "documents"
TmpPath == <<"tmp", "tmpfile.pdf">>

basename(path) == path[Len(path)]

\* One Document per page, each carrying the path the loader was given.
PyPDFLoader(path, f) ==
    [i \in 1..Len(f.pages) |->
        [source |-> path, author |-> f.author, page |-> i, n |-> f.pages[i]]]

RECURSIVE PyPDFDirectoryLoader(_)
PyPDFDirectoryLoader(dir) ==
    IF dir = <<>> THEN <<>>
    ELSE PyPDFLoader(<<DocumentsDir, Head(dir).name>>, Head(dir))
            \o PyPDFDirectoryLoader(Tail(dir))

\* The chunks of one page keep the page's metadata.
RECURSIVE split_documents(_)
split_documents(documents) ==
    IF documents = <<>> THEN <<>>
    ELSE LET d == Head(documents)
         IN  [k \in 1..d.n |->
                [source |-> d.source, page |-> d.page, k |-> k]]
             \o split_documents(Tail(documents))

\* doc.metadata['source'] = file_name, for every loaded page
RewriteSource(documents, file_name) ==
    [i \in 1..Len(documents) |-> [documents[i] EXCEPT !.source = <<file_name>>]]

\* The listings of the 'documents' folder: files with distinct names.
DirListings ==
    {<<>>} \cup {<<f>> : f \in Corpus}
           \cup {d \in Corpus \X Corpus : d[1].name # d[2].name}

\* ------------------------------------------------------------------------
\* The two stores
\* ------------------------------------------------------------------------
\* registry: rows of 'uploaded_documents'; nextId: its serial id column;
\* chunks: rows of 'documents'
VARIABLES registry, nextId, chunks
\* up: the upload page's run; scan: the deduplicating scan script's run
VARIABLES up, scan
\* mgmt: the management page's run; grid: the rows it shows; lastOp: the
\* outcome its last run shows, until the next run
VARIABLES mgmt, grid, lastOp
\* chat: the chat page
VARIABLES chat

\* the variables of the management page and of the chat page
pageVars == <<mgmt, grid, lastOp, chat>>

\* table("uploaded_documents").select("name").eq("name", file_name)
SelectByName(reg, file_name) == {r \in reg : r.name = file_name}

\* table("uploaded_documents").insert({"name":..., "author":...})
InsertRow(reg, id, file_name, author) ==
    reg \cup {[id |-> id, name |-> file_name, author |-> author]}

\* The vector store embeds all texts, then inserts the rows in slices of
\* StoreChunkSize; a failing request raises and leaves the earlier slices.
NumSlices(docs) == (Len(docs) + StoreChunkSize - 1) \div StoreChunkSize

StoredPrefix(docs, failAt) ==
    IF failAt = 0 THEN docs
    ELSE SubSeq(docs, 1, (failAt - 1) * StoreChunkSize)

\* rows handed to an insert request, the failing request included
RowsSent(docs, failAt) ==
    IF failAt = 0 \/ failAt * StoreChunkSize > Len(docs) THEN Len(docs)
    ELSE failAt * StoreChunkSize

\* The rows of 'documents' are kept as the bag of their metadata.source.
RECURSIVE Rows(_)
Rows(docs) ==
    IF docs = <<>> THEN EmptyBag
    ELSE SetToBag({Head(docs).source}) (+) Rows(Tail(docs))

add_documents(tbl, docs, failAt) == tbl (+) Rows(StoredPrefix(docs, failAt))

\* count of rows of 'documents' with metadata->>source = file_name
ChunkCount(tbl, file_name) == CopiesIn(<<file_name>>, tbl)

\* ------------------------------------------------------------------------
\* Upload page (pages/4_Document_Uploader.py)
\* ------------------------------------------------------------------------
UpIdle == [pc |-> "idle", remaining |-> 0, file |-> "none", docs |-> <<>>,
           sent |-> 0, author |-> "none", msg |-> "none"]

\* an exception leaves process_and_ingest_pdf and the loop over the files, and
\* is shown by the handler around the page
UpAbort(u, sent) ==
    [UpIdle EXCEPT !.remaining = u.remaining, !.sent = sent,
                   !.msg = "setup_error"]

\* the button is clicked with k files in the uploader
UploadStart(k) ==
    /\ up.pc = "idle"
    /\ up' = [UpIdle EXCEPT !.pc = "loop", !.remaining = k]
    /\ UNCHANGED <<registry, nextId, chunks, scan, pageVars>>

\* for file in uploaded_files: the next file enters process_and_ingest_pdf
UploadNextFile(f) ==
    /\ up.pc = "loop"
    /\ up.remaining > 0
    /\ up' = [up EXCEPT !.pc = "check", !.remaining = @ - 1, !.file = f,
                        !.docs = <<>>, !.sent = 0, !.author = "none",
                        !.msg = "none"]
    /\ UNCHANGED <<registry, nextId, chunks, scan, pageVars>>

\* the loop has run out of files
UploadFinish ==
    /\ up.pc = "loop"
    /\ up.remaining = 0
    /\ up' = [UpIdle EXCEPT !.msg = "all_processed"]
    /\ UNCHANGED <<registry, nextId, chunks, scan, pageVars>>

\* the duplicate check on the file's name
UploadExists(reg, file_name) == SelectByName(reg, file_name) # {}

\* the select is outside the function's try: a failing request leaves the
\* function and the loop like any other exception
UploadCheck(ok) ==
    /\ up.pc = "check"
    /\ IF ~ok
       THEN up' = UpAbort(up, 0)
       ELSE IF UploadExists(registry, up.file.name)
       THEN up' = [up EXCEPT !.pc = "loop", !.msg = "skip_warning"]
       ELSE up' = [up EXCEPT !.pc = "load", !.msg = "processing"]
    /\ UNCHANGED <<registry, nextId, chunks, scan, pageVars>>

\* The pages loaded from the temporary file, as they reach the splitter.
UploadDocuments(f) == RewriteSource(PyPDFLoader(TmpPath, f), f.name)

\* load, rewrite the source, take the author, split
UploadLoad(ok) ==
    /\ up.pc = "load"
    /\ IF ~ok
       THEN up' = UpAbort(up, 0)
       ELSE LET documents == UploadDocuments(up.file)
                docs == split_documents(documents)
            IN  IF docs = <<>>
                THEN up' = [up EXCEPT !.pc = "loop", !.msg = "no_text_warning"]
                ELSE up' = [up EXCEPT !.pc = "store", !.docs = docs,
                                      !.author = documents[1].author,
                                      !.msg = "none"]
    /\ UNCHANGED <<registry, nextId, chunks, scan, pageVars>>

\* vector_store.add_documents(docs)
UploadStore(failAt) ==
    /\ up.pc = "store"
    /\ failAt \in 0..NumSlices(up.docs)
    /\ BagCardinality(chunks) + Len(up.docs) <= MaxChunks
    /\ chunks' = add_documents(chunks, up.docs, failAt)
    /\ IF failAt = 0
       THEN up' = [up EXCEPT !.pc = "register", !.msg = "ingested",
                             !.sent = RowsSent(up.docs, failAt)]
       ELSE up' = UpAbort(up, RowsSent(up.docs, failAt))
    /\ UNCHANGED <<registry, nextId, scan, pageVars>>

\* table("uploaded_documents").insert(...), last statement of the function
UploadRegister(ok) ==
    /\ up.pc = "register"
    /\ nextId <= MaxRows
    /\ IF ok
       THEN /\ registry' = InsertRow(registry, nextId, up.file.name, up.author)
            /\ nextId' = nextId + 1
            /\ up' = [up EXCEPT !.pc = "loop", !.msg = "success"]
       ELSE /\ UNCHANGED <<registry, nextId>>
            /\ up' = UpAbort(up, up.sent)
    /\ UNCHANGED <<chunks, scan, pageVars>>

\* ------------------------------------------------------------------------
\* Directory scan with duplicate check (ingest_in_db_excl_dupes.py)
\* ------------------------------------------------------------------------
ScanIdle == [pc |-> "idle", documents |-> <<>>, idx |-> 1,
             processed_docs |-> <<>>, docs |-> <<>>, i |-> 0, msg |-> "none"]

\* documents = loader.load(); an unreadable file ends the script
ScanLoad(dir, ok) ==
    /\ scan.pc = "idle"
    /\ IF ok
       THEN scan' = [ScanIdle EXCEPT !.pc = "dedup",
                                     !.documents = PyPDFDirectoryLoader(dir)]
       ELSE scan' = [ScanIdle EXCEPT !.msg = "crashed"]
    /\ UNCHANGED <<registry, nextId, chunks, up, pageVars>>

\* the name the script checks and registers for a loaded document
ScanFileName(doc) == basename(doc.source)

ScanExists(reg, file_name) ==
    LET data == SelectByName(reg, file_name)
    IN  data # {} /\ Cardinality(data) > 0

\* for doc in documents: the duplicate check; a failing select ends the
\* script
ScanCheck(ok) ==
    /\ scan.pc = "dedup"
    /\ scan.idx <= Len(scan.documents)
    /\ IF ~ok
       THEN scan' = [scan EXCEPT !.pc = "idle", !.msg = "crashed"]
       ELSE IF ScanExists(registry, ScanFileName(scan.documents[scan.idx]))
       THEN scan' = [scan EXCEPT !.idx = @ + 1, !.msg = "skip_info"]
       ELSE scan' = [scan EXCEPT !.pc = "insert", !.msg = "none"]
    /\ UNCHANGED <<registry, nextId, chunks, up, pageVars>>

\* the registry insert that follows a passed check, then processed_docs.append
ScanInsert(ok) ==
    /\ scan.pc = "insert"
    /\ nextId <= MaxRows
    /\ LET doc == scan.documents[scan.idx]
       IN  IF ok
           THEN /\ registry' = InsertRow(registry, nextId, ScanFileName(doc),
                                         doc.author)
                /\ nextId' = nextId + 1
                /\ scan' = [scan EXCEPT !.pc = "dedup", !.idx = @ + 1,
                                        !.processed_docs = Append(@, doc),
                                        !.msg = "none"]
           ELSE /\ UNCHANGED <<registry, nextId>>
                /\ scan' = [scan EXCEPT !.pc = "idle", !.msg = "crashed"]
    /\ UNCHANGED <<chunks, up, pageVars>>

\* docs = text_splitter.split_documents(processed_docs)
ScanSplit ==
    /\ scan.pc = "dedup"
    /\ scan.idx > Len(scan.documents)
    /\ scan' = [scan EXCEPT !.pc = "batch",
                            !.docs = split_documents(scan.processed_docs),
                            !.i = 0, !.msg = "none"]
    /\ UNCHANGED <<registry, nextId, chunks, up, pageVars>>

Batch(docs, i) ==
    SubSeq(docs, i + 1, IF i + BATCH_SIZE < Len(docs) THEN i + BATCH_SIZE
                                                     ELSE Len(docs))

\* one turn of the batch loop: the exception of a failing batch is caught
ScanBatch(failAt) ==
    /\ scan.pc = "batch"
    /\ scan.i < Len(scan.docs)
    /\ LET batch == Batch(scan.docs, scan.i)
       IN  /\ failAt \in 0..NumSlices(batch)
           /\ BagCardinality(chunks) + Len(batch) <= MaxChunks
           /\ chunks' = add_documents(chunks, batch, failAt)
           /\ scan' = [scan EXCEPT
                         !.i = @ + BATCH_SIZE,
                         !.msg = IF failAt = 0 THEN "batch_ingested"
                                 ELSE "batch_failed"]
    /\ UNCHANGED <<registry, nextId, up, pageVars>>

\* the batch loop is over: the closing print
ScanFinish ==
    /\ scan.pc = "batch"
    /\ scan.i >= Len(scan.docs)
    /\ scan' = [ScanIdle EXCEPT !.msg = "loaded"]
    /\ UNCHANGED <<registry, nextId, chunks, up, pageVars>>

\* ------------------------------------------------------------------------
\* Directory scan without duplicate check (ingest_in_db.py)
\* ------------------------------------------------------------------------
\* load, split, SupabaseVectorStore.from_documents: the whole script
IngestInDb(dir, failAt) ==
    LET docs == split_documents(PyPDFDirectoryLoader(dir))
    IN  /\ docs # <<>>
        /\ failAt \in 0..NumSlices(docs)
        /\ BagCardinality(chunks) + Len(docs) <= MaxChunks
        /\ chunks' = add_documents(chunks, docs, failAt)
        /\ UNCHANGED <<registry, nextId, up, scan, pageVars>>

\* ------------------------------------------------------------------------
\* Document management page (pages/2_Documents.py)
\* ------------------------------------------------------------------------
\* mgmt: the run of the page's script that is under way. pc "reload": the
\* cache was cleared, the next run reads the tables again. todo: the rows a
\* loop still has to take; frame: the rows load_data has counted; k: the
\* request of the current row; log: the requests of a delete that succeeded.
MgmtIdle == [pc |-> "idle", todo |-> <<>>, frame |-> {}, k |-> 1, log |-> <<>>,
             chunksRemoved |-> 0, rowsRemoved |-> 0]

NoOp == [op |-> "none", ok |-> TRUE, chunksRemoved |-> 0, rowsRemoved |-> 0,
         failAt |-> 0]

\* lastOp of a run that has shown no message of a save or a delete
Shown == [NoOp EXCEPT !.op = "load"]

\* the rows of a frame in the order of the query: id descending
RECURSIVE OrderByIdDesc(_)
OrderByIdDesc(rows) ==
    IF rows = {} THEN <<>>
    ELSE LET top == CHOOSE r \in rows : \A q \in rows : q.id <= r.id
         IN  <<top>> \o OrderByIdDesc(rows \ {top})

\* load_data, first request: the registry rows, newest first. An empty frame
\* is returned as it is and the page stops at its warning; an exception
\* reaches the handler around the page and no grid is drawn.
LoadRegistry(ok) ==
    /\ mgmt.pc \in {"idle", "reload"}
    /\ IF ~ok
       THEN /\ mgmt' = MgmtIdle
            /\ grid' = {}
            /\ lastOp' = [Shown EXCEPT !.ok = FALSE, !.failAt = 1]
       ELSE IF registry = {}
       THEN /\ mgmt' = MgmtIdle
            /\ grid' = {}
            /\ lastOp' = Shown
       ELSE /\ mgmt' = [MgmtIdle EXCEPT !.pc = "count",
                                       !.todo = OrderByIdDesc(registry)]
            /\ lastOp' = Shown
            /\ UNCHANGED grid
    /\ UNCHANGED <<registry, nextId, chunks, up, scan, chat>>

\* one row of the frame: the count of the chunks whose source is its name,
\* -1 when the count request raises
CountRow(tbl, row, ok) ==
    [id |-> row.id, name |-> row.name, author |-> row.author,
     chunk_count |-> IF ok THEN ChunkCount(tbl, row.name) ELSE -1]

\* load_data, one turn of its loop over the rows; after the last row the
\* frame is cached and drawn
LoadCount(ok) ==
    /\ mgmt.pc = "count"
    /\ LET frame == mgmt.frame \cup {CountRow(chunks, Head(mgmt.todo), ok)}
       IN  IF Tail(mgmt.todo) = <<>>
           THEN /\ mgmt' = MgmtIdle
                /\ grid' = frame
           ELSE /\ mgmt' = [mgmt EXCEPT !.todo = Tail(@), !.frame = frame]
                /\ UNCHANGED grid
    /\ UNCHANGED <<registry, nextId, chunks, up, scan, lastOp, chat>>

\* the user types another file name into a row's File Name cell
EditName(id, name) ==
    /\ mgmt.pc = "idle"
    /\ \E row \in grid : row.id = id /\ row.name # name
    /\ grid' = {IF row.id = id THEN [row EXCEPT !.name = name] ELSE row :
                    row \in grid}
    /\ lastOp' = Shown
    /\ UNCHANGED <<registry, nextId, chunks, up, scan, mgmt, chat>>

\* the user types another author into a row's Author cell
EditAuthor(id, author) ==
    /\ mgmt.pc = "idle"
    /\ \E row \in grid : row.id = id /\ row.author # author
    /\ grid' = {IF row.id = id THEN [row EXCEPT !.author = author] ELSE row :
                    row \in grid}
    /\ lastOp' = Shown
    /\ UNCHANGED <<registry, nextId, chunks, up, scan, mgmt, chat>>

\* table("uploaded_documents").update(row_dict).eq("id", row["id"])
UpdateRow(reg, row) ==
    {IF r.id = row.id
        THEN [id |-> row.id, name |-> row.name, author |-> row.author]
        ELSE r : r \in reg}

\* "Save Changes" is clicked on a grid with rows
SaveClick ==
    /\ mgmt.pc = "idle"
    /\ grid # {}
    /\ mgmt' = [MgmtIdle EXCEPT !.pc = "save", !.todo = OrderByIdDesc(grid)]
    /\ lastOp' = Shown
    /\ UNCHANGED <<registry, nextId, chunks, up, scan, grid, chat>>

\* one turn of the loop over the grid's rows: the row is written back by id.
\* After the last row the cache is cleared; the grid drawn stays until the
\* next run. A failing request raises out of the loop.
SaveRow(ok) ==
    /\ mgmt.pc = "save"
    /\ IF ~ok
       THEN /\ mgmt' = MgmtIdle
            /\ lastOp' = [NoOp EXCEPT !.op = "save", !.ok = FALSE,
                                      !.failAt = mgmt.k]
            /\ UNCHANGED registry
       ELSE /\ registry' = UpdateRow(registry, Head(mgmt.todo))
            /\ IF Tail(mgmt.todo) = <<>>
               THEN /\ mgmt' = [MgmtIdle EXCEPT !.pc = "reload"]
                    /\ lastOp' = [NoOp EXCEPT !.op = "save"]
               ELSE /\ mgmt' = [mgmt EXCEPT !.todo = Tail(@), !.k = @ + 1]
                    /\ UNCHANGED lastOp
    /\ UNCHANGED <<nextId, chunks, up, scan, grid, chat>>

\* table("documents").delete().eq('metadata->>source', file_name_to_delete)
DeleteChunks(tbl, file_name) ==
    [s \in DOMAIN tbl \ {<<file_name>>} |-> tbl[s]]

\* table("uploaded_documents").delete().eq("id", row["id"])
DeleteRow(reg, id) == {r \in reg : r.id # id}

\* the registry row first, the chunks after it
DeleteOrderRowFirst == <<"row", "chunks">>

\* the two requests the loop makes for a selected row, in their order
DeleteOrder == <<"chunks", "row">>

\* the selections of the grid: its rows ticked in some order
Selections(rows) ==
    UNION {{sel \in [1..Cardinality(T) -> T] :
                \A i, j \in 1..Cardinality(T) : i # j => sel[i] # sel[j]} :
           T \in SUBSET rows \ {{}}}

\* "Delete N Selected Row(s)" is clicked
DeleteClick(sel) ==
    /\ mgmt.pc = "idle"
    /\ sel \in Selections(grid)
    /\ mgmt' = [MgmtIdle EXCEPT !.pc = "delete", !.todo = sel]
    /\ lastOp' = Shown
    /\ UNCHANGED <<registry, nextId, chunks, up, scan, grid, chat>>

\* one request of the loop over the selected rows: the row's chunks by the
\* name it carries, or its registry row by id. A failing request raises out
\* of the loop; after the last request the cache is cleared and the script
\* is rerun.
DeleteRequest(ok) ==
    /\ mgmt.pc = "delete"
    /\ LET row == Head(mgmt.todo)
           req == DeleteOrder[mgmt.k]
           tbl == IF req = "chunks" THEN DeleteChunks(chunks, row.name)
                  ELSE chunks
           reg == IF req = "row" THEN DeleteRow(registry, row.id)
                  ELSE registry
           chunksRemoved == mgmt.chunksRemoved
                              + BagCardinality(chunks) - BagCardinality(tbl)
           rowsRemoved == mgmt.rowsRemoved
                            + Cardinality(registry) - Cardinality(reg)
       IN  IF ~ok
           THEN /\ mgmt' = MgmtIdle
                /\ lastOp' = [op |-> "delete", ok |-> FALSE,
                              chunksRemoved |-> mgmt.chunksRemoved,
                              rowsRemoved |-> mgmt.rowsRemoved,
                              failAt |-> Len(mgmt.log) + 1]
                /\ UNCHANGED <<registry, chunks>>
           ELSE /\ registry' = reg
                /\ chunks' = tbl
                /\ IF mgmt.k < Len(DeleteOrder)
                   THEN /\ mgmt' = [mgmt EXCEPT
                               !.k = @ + 1,
                               !.log = Append(@, [req |-> req, row |-> row]),
                               !.chunksRemoved = chunksRemoved,
                               !.rowsRemoved = rowsRemoved]
                        /\ UNCHANGED lastOp
                   ELSE IF Tail(mgmt.todo) # <<>>
                   THEN /\ mgmt' = [mgmt EXCEPT
                               !.todo = Tail(@), !.k = 1,
                               !.log = Append(@, [req |-> req, row |-> row]),
                               !.chunksRemoved = chunksRemoved,
                               !.rowsRemoved = rowsRemoved]
                        /\ UNCHANGED lastOp
                   ELSE /\ mgmt' = [MgmtIdle EXCEPT !.pc = "reload"]
                        /\ lastOp' = [op |-> "delete", ok |-> TRUE,
                                      chunksRemoved |-> chunksRemoved,
                                      rowsRemoved |-> rowsRemoved,
                                      failAt |-> 0]
    /\ UNCHANGED <<nextId, up, scan, grid, chat>>

\* ------------------------------------------------------------------------
\* Chat page (1_Raymondo.py)
\* ------------------------------------------------------------------------
\* largest number of questions put in one session
MaxTurns == 3

SqlSecrets == {"DB_USER", "DB_PASSWORD", "DB_HOST", "DB_NAME"}
InternalDocuments == "Internal Documents (PDFs)"
CaseData == "Case Data (Completions)"
Questions == {"q1", "q2"}

\* sql_executor as initialize_system returns it: built only with all four
\* secrets present and a construction that does not raise
initialize_system(secrets, constructed) ==
    IF SqlSecrets \subseteq secrets /\ constructed THEN "sql_executor"
    ELSE "None"

\* the options with the case data offered unconditionally
radio_options_both(sql_executor) == <<InternalDocuments, CaseData>>

radio_options(sql_executor) ==
    IF sql_executor # "None" THEN <<InternalDocuments, CaseData>>
    ELSE <<InternalDocuments>>

Range(seq) == {seq[i] : i \in 1..Len(seq)}

\* The tool-calling loop of an executor. Both executors are built without
\* max_iterations and early_stopping_method, so the loop runs at most 15
\* iterations and, at the cap, returns the stopped response as its output.
max_iterations == 15
StoppedResponse == "Agent stopped due to max iterations."

\* rounds: the number of consecutive steps at which the agent asks for tools
\* before it gives its final answer; final: that answer, "raise" for an
\* exception. Each iteration runs its tools one after another, then counts.
RECURSIVE AgentExecutor(_, _, _)
AgentExecutor(rounds, final, iterations) ==
    IF iterations < max_iterations
    THEN IF rounds = 0
         THEN [output |-> final, iterations |-> iterations, stopped |-> FALSE]
         ELSE AgentExecutor(rounds - 1, final, iterations + 1)
    ELSE [output |-> StoppedResponse, iterations |-> iterations,
          stopped |-> TRUE]

\* executor.invoke({"input": ...})
invoke(rounds, final) == AgentExecutor(rounds, final, 0)

NoLoop == [iterations |-> 0, stopped |-> FALSE]

ChatStart == [phase |-> "start", secrets |-> {}, constructed |-> FALSE,
              sql_executor |-> "None",
              data_source |-> InternalDocuments, messages |-> <<>>,
              calls |-> <<>>, loop |-> NoLoop]

\* the first run of the script: the cached initialisation
InitializeSystem(secrets, constructed) ==
    /\ chat.phase = "start"
    /\ chat' = [chat EXCEPT !.phase = "ready", !.secrets = secrets,
                  !.constructed = constructed,
                  !.sql_executor = initialize_system(secrets, constructed)]
    /\ UNCHANGED <<registry, nextId, chunks, up, scan, mgmt, grid, lastOp>>

\* the radio: one of the options offered
SelectDataSource(option) ==
    /\ chat.phase = "ready"
    /\ option \in Range(radio_options(chat.sql_executor))
    /\ option # chat.data_source
    /\ chat' = [chat EXCEPT !.data_source = option]
    /\ UNCHANGED <<registry, nextId, chunks, up, scan, mgmt, grid, lastOp>>

\* The executor chosen for the selected source, "None" when there is none.
Dispatch(data_source, sql_executor) ==
    IF data_source = InternalDocuments THEN "doc_executor"
    ELSE IF data_source = CaseData /\ sql_executor # "None" THEN "sql_executor"
    ELSE "None"

\* what reaches the transcript for a question: result is the executor's
\* outcome, "raise" for an exception, else the text of result["output"]
Turn(messages, executor, question, result) ==
    LET asked == Append(messages, [role |-> "user", content |-> question])
        ai_response == IF executor = "None" \/ result = "raise" THEN ""
                       ELSE result
    IN  IF ai_response # ""
        THEN Append(asked, [role |-> "assistant", content |-> ai_response])
        ELSE asked

Results == {"answer", "", "raise"}

\* a question is typed into the chat input; the executor's loop takes rounds
\* tool-calling steps and its language model then gives result
Ask(question, rounds, result) ==
    /\ chat.phase = "ready"
    /\ Len(chat.messages) < 2 * MaxTurns - 1
    /\ LET executor == Dispatch(chat.data_source, chat.sql_executor)
           out == invoke(rounds, result)
       IN  chat' = [chat EXCEPT
                      !.messages = Turn(@, executor, question, out.output),
                      !.calls = IF executor = "None" THEN @
                                ELSE Append(@, [executor |-> executor,
                                                source |-> chat.data_source]),
                      !.loop = IF executor = "None" THEN NoLoop
                               ELSE [iterations |-> out.iterations,
                                     stopped |-> out.stopped]]
    /\ UNCHANGED <<registry, nextId, chunks, up, scan, mgmt, grid, lastOp>>

vars == <<registry, nextId, chunks, up, scan, mgmt, grid, lastOp, chat>>

Init ==
    /\ registry = {}
    /\ nextId = 1
    /\ chunks = EmptyBag
    /\ up = UpIdle
    /\ scan = ScanIdle
    /\ mgmt = MgmtIdle
    /\ grid = {}
    /\ lastOp = NoOp
    /\ chat = ChatStart

MaxSlices == (MaxChunks + StoreChunkSize - 1) \div StoreChunkSize

\* no upload and no scan is under way
NoRun == up.pc = "idle" /\ scan.pc = "idle"

\* One ingestion job at a time: a job starts when no other is under way.
Next ==
    \/ \E k \in 1..MaxUploadFiles : NoRun /\ UploadStart(k)
    \/ \E f \in Corpus : UploadNextFile(f)
    \/ UploadFinish
    \/ \E ok \in BOOLEAN : UploadCheck(ok)
    \/ \E ok \in BOOLEAN : UploadLoad(ok)
    \/ \E failAt \in 0..MaxSlices : UploadStore(failAt)
    \/ \E ok \in BOOLEAN : UploadRegister(ok)
    \/ \E dir \in DirListings, ok \in BOOLEAN : NoRun /\ ScanLoad(dir, ok)
    \/ \E ok \in BOOLEAN : ScanCheck(ok)
    \/ \E ok \in BOOLEAN : ScanInsert(ok)
    \/ ScanSplit
    \/ \E failAt \in 0..MaxSlices : ScanBatch(failAt)
    \/ ScanFinish
    \/ \E dir \in DirListings, failAt \in 0..MaxSlices :
            NoRun /\ IngestInDb(dir, failAt)

Spec == Init /\ [][Next]_vars

\* An upload and a scan of the same one-file folder under way together.
RaceCorpus == {f \in Corpus : f.name = "a.pdf" /\ f.author = "Ann"}

NextRace ==
    \/ UploadStart(1)
    \/ \E f \in RaceCorpus : UploadNextFile(f)
    \/ UploadFinish
    \/ \E ok \in BOOLEAN : UploadCheck(ok)
    \/ \E ok \in BOOLEAN : UploadLoad(ok)
    \/ \E failAt \in 0..MaxSlices : UploadStore(failAt)
    \/ \E ok \in BOOLEAN : UploadRegister(ok)
    \/ \E f \in RaceCorpus, ok \in BOOLEAN : ScanLoad(<<f>>, ok)
    \/ \E ok \in BOOLEAN : ScanCheck(ok)
    \/ \E ok \in BOOLEAN : ScanInsert(ok)
    \/ ScanSplit
    \/ \E failAt \in 0..MaxSlices : ScanBatch(failAt)
    \/ ScanFinish

SpecRace == Init /\ [][NextRace]_vars

\* Files are uploaded, then the management page is put to work.
\* the management page has not been opened yet
Unmanaged == mgmt.pc = "idle" /\ grid = {} /\ lastOp.op = "none"

NextManage ==
    \/ Unmanaged /\ UploadStart(1)
    \/ \E f \in Corpus : UploadNextFile(f)
    \/ UploadFinish
    \/ \E ok \in BOOLEAN : UploadCheck(ok)
    \/ \E ok \in BOOLEAN : UploadLoad(ok)
    \/ \E failAt \in 0..MaxSlices : UploadStore(failAt)
    \/ \E ok \in BOOLEAN : UploadRegister(ok)
    \/ \E ok \in BOOLEAN : up.pc = "idle" /\ LoadRegistry(ok)
    \/ \E ok \in BOOLEAN : LoadCount(ok)
    \/ \E id \in 1..MaxRows, name \in Names :
            up.pc = "idle" /\ EditName(id, name)
    \/ \E id \in 1..MaxRows, author \in Authors :
            up.pc = "idle" /\ EditAuthor(id, author)
    \/ up.pc = "idle" /\ SaveClick
    \/ \E ok \in BOOLEAN : SaveRow(ok)
    \/ \E sel \in Selections(grid) : up.pc = "idle" /\ DeleteClick(sel)
    \/ \E ok \in BOOLEAN : DeleteRequest(ok)

SpecManage == Init /\ [][NextManage]_vars

\* The management page loading and deleting while an upload and a scan of
\* the same one-file folder, begun before the page was opened, are under
\* way: every request of the three is a step.
NextShared ==
    \/ Unmanaged /\ UploadStart(1)
    \/ \E f \in RaceCorpus : UploadNextFile(f)
    \/ UploadFinish
    \/ \E ok \in BOOLEAN : UploadCheck(ok)
    \/ \E ok \in BOOLEAN : UploadLoad(ok)
    \/ \E failAt \in 0..MaxSlices : UploadStore(failAt)
    \/ \E ok \in BOOLEAN : UploadRegister(ok)
    \/ \E f \in RaceCorpus, ok \in BOOLEAN :
            Unmanaged /\ ScanLoad(<<f>>, ok)
    \/ \E ok \in BOOLEAN : ScanCheck(ok)
    \/ \E ok \in BOOLEAN : ScanInsert(ok)
    \/ ScanSplit
    \/ \E failAt \in 0..MaxSlices : ScanBatch(failAt)
    \/ ScanFinish
    \/ \E ok \in BOOLEAN : LoadRegistry(ok)
    \/ \E ok \in BOOLEAN : LoadCount(ok)
    \/ \E sel \in Selections(grid) : DeleteClick(sel)
    \/ \E ok \in BOOLEAN : DeleteRequest(ok)

SpecShared == Init /\ [][NextShared]_vars

\* The chat page alone.
NextChat ==
    \/ \E secrets \in SUBSET SqlSecrets, constructed \in BOOLEAN :
            InitializeSystem(secrets, constructed)
    \/ \E option \in {InternalDocuments, CaseData} : SelectDataSource(option)
    \/ \E question \in Questions, rounds \in {0, max_iterations},
          result \in Results : Ask(question, rounds, result)

SpecChat == Init /\ [][NextChat]_vars

\* The chat page with the four secrets set, and loops of every length.
NextLoop ==
    \/ \E constructed \in BOOLEAN : InitializeSystem(SqlSecrets, constructed)
    \/ \E option \in {InternalDocuments, CaseData} : SelectDataSource(option)
    \/ \E question \in Questions, rounds \in 0..(max_iterations + 1),
          result \in Results : Ask(question, rounds, result)

SpecLoop == Init /\ [][NextLoop]_vars

\* ------------------------------------------------------------------------
\* Properties
\* ------------------------------------------------------------------------
Registered(reg, n) == \E r \in reg : r.name = n

RowsNamed(reg, n) == {r \in reg : r.name = n}

\* C1: ingesting a file whose name is registered leaves the registry and the
\* chunk table as they are, goes on to no load or store, and ends skipped
\* with a warning, on the upload page and in the scan script; run one after
\* another, ingestions leave at most one registry row per name.
IdempotentIngestion ==
    [][ /\ \A n \in Names : Cardinality(RowsNamed(registry', n)) <= 1
        /\ (up.pc = "check" /\ up' # up /\ Registered(registry, up.file.name))
            => /\ registry' = registry
               /\ chunks' = chunks
               /\ up'.pc = "loop"
               /\ up'.docs = <<>>
               /\ up'.msg = "skip_warning"
        /\ (/\ scan.pc = "dedup" /\ scan' # scan
            /\ scan.idx <= Len(scan.documents)
            /\ Registered(registry, basename(scan.documents[scan.idx].source)))
            => /\ registry' = registry
               /\ chunks' = chunks
               /\ scan'.pc = "dedup"
               /\ scan'.idx = scan.idx + 1
               /\ scan'.processed_docs = scan.processed_docs
               /\ scan'.msg = "skip_warning" ]_vars

\* C2: every stored chunk's source is the bare file name, the key of the
\* registry's duplicate check, never a path.
ChunkLinkage == \A source \in DOMAIN chunks : source = <<basename(source)>>

\* C4: a registry row is written only after chunks of its name are stored, so
\* every registered name has chunks.
RegisterAfterStore == \A r \in registry : ChunkCount(chunks, r.name) > 0

\* C6: when the store phase of a file is over every batch of it was handed to
\* the store, a failing one notwithstanding, and stored chunks stay.
AllBatchesAttempted ==
    [][ /\ (up.pc = "store" /\ up'.pc # "store") => up'.sent = Len(up.docs)
        /\ (scan.pc = "batch" /\ scan'.pc = "idle") => scan.i >= Len(scan.docs)
        /\ \A source \in DOMAIN chunks :
                CopiesIn(source, chunks') >= CopiesIn(source, chunks) ]_vars

\* the chunks the scan script's loaded documents of one file name split into
ScanFileChunks(file_name) ==
    LET OfFile(doc) == basename(doc.source) = file_name
    IN  split_documents(SelectSeq(scan.documents, OfFile))

\* C8: no registry row is inserted for a file without extractable text.
NoTextNoRegistration ==
    [][ \A r \in registry' \ registry :
            IF up.pc = "register" /\ up'.pc # "register"
            THEN split_documents(UploadDocuments(up.file)) # <<>>
            ELSE ScanFileChunks(r.name) # <<>> ]_vars

\* C9: a job that has ended has taken every file of its list through the
\* duplicate check.
RemainingFilesProcessed ==
    /\ up.pc = "idle" => up.remaining = 0
    /\ scan.pc = "idle" => scan.idx > Len(scan.documents)

\* C10: the registry never holds two rows of one name, whatever the
\* interleaving of two ingestions of that name.
NoDuplicateRegistration ==
    \A n \in Names : Cardinality(RowsNamed(registry, n)) <= 1

\* the rows selected for the delete under way
DeleteSel(m) ==
    {m.log[j].row : j \in 1..Len(m.log)} \cup {m.todo[j] : j \in 1..Len(m.todo)}

\* C3: at the step that completes a delete, no chunk has a selected row's
\* name as source and no selected row is left in the registry.
CascadingDelete ==
    [][ (mgmt.pc = "delete" /\ mgmt'.pc = "reload") =>
            \A row \in DeleteSel(mgmt) :
                /\ ChunkCount(chunks', row.name) = 0
                /\ \A r \in registry' : r.id # row.id ]_vars

\* the structured tool was not built: a secret is missing or the
\* construction raised
SqlToolAbsent ==
    /\ chat.phase = "ready"
    /\ ~(SqlSecrets \subseteq chat.secrets) \/ ~chat.constructed

\* C5: without the structured tool the case data is neither offered nor
\* selected, and no turn calls an executor for it.
RouterGating ==
    SqlToolAbsent =>
        /\ chat.sql_executor = "None"
        /\ CaseData \notin Range(radio_options(chat.sql_executor))
        /\ chat.data_source # CaseData
        /\ \A i \in 1..Len(chat.calls) :
                /\ chat.calls[i].executor # "sql_executor"
                /\ chat.calls[i].source # CaseData

\* questions were answered from the documents with three of the four secrets
\* set
RouterGatingWitness ==
    /\ SqlToolAbsent
    /\ Cardinality(chat.secrets) = 3
    /\ chat.constructed
    /\ Len(chat.calls) > 1

\* C7: the transcript alternates user and assistant and ends with an
\* assistant message.
OneAnswerPerQuestion ==
    /\ Len(chat.messages) % 2 = 0
    /\ \A i \in 1..Len(chat.messages) :
            chat.messages[i].role = IF i % 2 = 1 THEN "user" ELSE "assistant"

\* C11: the tool-calling loop of a turn ends within the iteration cap, and a
\* turn whose loop reached the cap without a final answer ends in an error,
\* with no assistant message put into the transcript as its answer.
BoundedAnsweringLoop ==
    /\ chat.loop.iterations <= max_iterations
    /\ chat.loop.stopped =>
            /\ chat.messages # <<>>
            /\ chat.messages[Len(chat.messages)].role = "user"

\* the chunks of file_name among the chunks a scan run is about to store
ScanDocsOf(run, file_name) ==
    LET OfFile(doc) == basename(doc.source) = file_name
    IN  SelectSeq(run.docs, OfFile)

\* the chunks every loaded page of file_name splits into
ScanChunksOf(run, file_name) ==
    LET OfFile(doc) == basename(doc.source) = file_name
    IN  split_documents(SelectSeq(run.documents, OfFile))

\* the names a scan run found unregistered and took for ingestion
ScanNewNames(run) ==
    {basename(run.processed_docs[j].source) : j \in 1..Len(run.processed_docs)}

\* C13: a file whose name was not registered has every chunk of every page
\* stored when no batch fails: an upload's store adds them all; a scan's
\* batches hold them all, each batch that does not fail is added whole, and
\* the run ends only after its last batch.
CompleteIngestion ==
    [][ /\ (up.pc = "store" /\ up'.pc = "register") =>
                chunks' = chunks
                    (+) Rows(split_documents(UploadDocuments(up.file)))
        /\ scan'.pc = "batch" =>
                \A n \in ScanNewNames(scan') :
                    ScanDocsOf(scan', n) = ScanChunksOf(scan', n)
        /\ (scan.pc = "batch" /\ scan'.msg = "batch_ingested") =>
                chunks' = chunks (+) Rows(Batch(scan.docs, scan.i))
        /\ (scan.pc = "batch" /\ scan'.pc = "idle") =>
                scan.i >= Len(scan.docs) ]_vars

\* C12: a step of a delete removes a registry row only right after the same
\* delete's chunk request for that row, which left no chunk with the row's
\* name as source; a failing request removes no registry row.
DeleteOrdering ==
    [][ (mgmt.pc = "delete" /\ mgmt' # mgmt) =>
            LET row == Head(mgmt.todo)
                chunksDone ==
                    /\ mgmt.log # <<>>
                    /\ mgmt.log[Len(mgmt.log)] = [req |-> "chunks", row |-> row]
            IN  /\ \A r \in registry \ registry' : r.id = row.id /\ chunksDone
                /\ mgmt'.pc = "idle" => registry' = registry
                /\ (mgmt'.pc = "delete" /\ mgmt'.k = mgmt.k + 1
                        /\ DeleteOrder[mgmt.k] = "chunks") =>
                            ChunkCount(chunks', row.name) = 0 ]_vars

\* a delete of two rows has removed the first row after its chunks and failed
\* at the chunk request of the second, which is still registered
DeleteOrderingWitness ==
    /\ lastOp.op = "delete"
    /\ ~lastOp.ok
    /\ lastOp.failAt = 3
    /\ lastOp.rowsRemoved = 1
    /\ lastOp.chunksRemoved > 0
    /\ registry # {}

\* the stored names of the registry rows that are not selected
UnselectedNames(reg, sel) ==
    {r.name : r \in {q \in reg : \A row \in sel : row.id # q.id}}

\* C14: a request of a delete leaves every registry row that is not selected
\* as it is, and every chunk whose source is the stored name of such a row.
DeleteFrame ==
    [][ (mgmt.pc = "delete" /\ mgmt' # mgmt) =>
            LET sel == DeleteSel(mgmt)
            IN  /\ \A r \in registry :
                        (\A row \in sel : row.id # r.id) => r \in registry'
                /\ \A n \in UnselectedNames(registry, sel) :
                        ChunkCount(chunks', n) = ChunkCount(chunks, n) ]_vars

\* the rows of 'documents' whose metadata.source is file_name
Matching(tbl, file_name) ==
    [s \in DOMAIN tbl \cap {<<file_name>>} |-> tbl[s]]

\* C15: after a request of "Save Changes" every registry row that had chunks
\* matching its name is still registered and the same chunks match its name.
SavePreservesLinkage ==
    [][ (mgmt.pc = "save" /\ mgmt' # mgmt) =>
            \A r \in registry :
                ChunkCount(chunks, r.name) > 0 =>
                    \E q \in registry' :
                        /\ q.id = r.id
                        /\ Matching(chunks', q.name)
                                = Matching(chunks, r.name) ]_vars
====
